---- MODULE Spec2Model ----
(***************************************************************************)
(* Model of the SettingsModal component (src/components/SettingsModal.tsx) *)
(* and of the citation extraction of sendAssistantMessage                  *)
(* (src/services/geminiService.ts).                                        *)
(*                                                                         *)
(* Text is a sequence of symbols.  The punctuation symbols are single      *)
(* characters; a word symbol ("apiKey", "projectId", "x", "1") stands for  *)
(* an unbroken piece of [a-zA-Z0-9_] characters.  Over this alphabet       *)
(* JSON.parse, JSON.stringify(v, null, 2) and the three regular-expression *)
(* replacements of getParsedConfig are modelled symbol by symbol.          *)
(***************************************************************************)
EXTENDS Integers, Sequences, FiniteSets, TLC

\* ------------------------------------------------------------------ bounds
\* Longest text of the exhaustive text domain of SpecParse.
MaxLen == 3
\* Number of connectivity probes that may be awaiting at the same time.
MaxInFlight == 2
\* Longest grounding-chunk list returned by the provider.
MaxChunks == 3

\* ---------------------------------------------------------------- alphabet
LB == "{"
RB == "}"
COLON == ":"
COMMA == ","
SQ == "'"
DQ == "\""
SP == " "
NL == "\n"

Letters == {"apiKey", "projectId", "x"}
Digits == {"1"}
\* The class [a-zA-Z0-9_] of the first regular expression.
WordChars == Letters \cup Digits
\* \s of the regular expressions, the whitespace of JSON and of String.trim.
Spaces == {SP, NL}
Quotes == {SQ, DQ}
Alphabet == {LB, RB, COLON, COMMA, SQ, DQ, SP, NL} \cup WordChars

\* ------------------------------------------------------------ JS values
\* A JavaScript value: a string (s), a number (s: its digits), an object
\* (m: its own properties, in property order, as <<key, value>> pairs), or
\* null / undefined.
NULL == [t |-> "null", s |-> <<>>, m |-> <<>>]
UNDEFINED == [t |-> "undefined", s |-> <<>>, m |-> <<>>]
Str(s) == [t |-> "str", s |-> s, m |-> <<>>]
Num(s) == [t |-> "num", s |-> s, m |-> <<>>]
Obj(m) == [t |-> "obj", s |-> <<>>, m |-> m]

\* ToBoolean: "" is falsy, every number over Digits is non-zero, objects
\* are truthy.
Truthy(v) ==
    CASE v.t = "str" -> v.s # <<>>
      [] v.t = "num" -> TRUE
      [] v.t = "obj" -> TRUE
      [] OTHER -> FALSE

\* Property read v.key (config.apiKey, config.projectId).
GetProp(v, key) ==
    IF v.t = "obj" /\ \E i \in 1..Len(v.m) : v.m[i][1] = key
    THEN v.m[CHOOSE i \in 1..Len(v.m) : v.m[i][1] = key][2]
    ELSE UNDEFINED

\* A canonical array-index key: JavaScript lists these first, ascending.
IsIndexKey(k) == Len(k) > 0 /\ \A i \in 1..Len(k) : k[i] \in Digits

\* Place where a new property k goes in the property order of m.
InsertAt(m, k) ==
    IF IsIndexKey(k)
    THEN 1 + Cardinality({i \in 1..Len(m) : IsIndexKey(m[i][1]) /\ Len(m[i][1]) < Len(k)})
    ELSE Len(m) + 1

\* obj[k] = v as JSON.parse does it: a repeated key keeps its place and
\* takes the last value.
PutProp(m, k, v) ==
    IF \E i \in 1..Len(m) : m[i][1] = k
    THEN [i \in 1..Len(m) |-> IF m[i][1] = k THEN <<k, v>> ELSE m[i]]
    ELSE LET p == InsertAt(m, k)
         IN SubSeq(m, 1, p - 1) \o <<(<<k, v>>)>> \o SubSeq(m, p, Len(m))

\* ------------------------------------------------------------ JSON.parse
RECURSIVE SkipWs(_, _)
SkipWs(s, i) == IF i <= Len(s) /\ s[i] \in Spaces THEN SkipWs(s, i + 1) ELSE i

RECURSIVE RunEnd(_, _, _)
\* First position at or after i whose symbol is not in class.
RunEnd(s, i, class) ==
    IF i <= Len(s) /\ s[i] \in class THEN RunEnd(s, i + 1, class) ELSE i

Fail == [ok |-> FALSE, v |-> UNDEFINED, next |-> 0]
Ok(v, next) == [ok |-> TRUE, v |-> v, next |-> next]

\* A string literal opening at i: up to the next double quote, with no
\* line break inside (the alphabet has no backslash).
ParseString(s, i) ==
    LET j == RunEnd(s, i + 1, Alphabet \ {DQ, NL})
    IN IF i <= Len(s) /\ s[i] = DQ /\ j <= Len(s) /\ s[j] = DQ
       THEN Ok(Str(SubSeq(s, i + 1, j - 1)), j + 1)
       ELSE Fail

RECURSIVE ParseValue(_, _)
RECURSIVE ParseMembers(_, _, _)

\* The members of an object from position i (at a key), m the properties
\* read so far.
ParseMembers(s, i, m) ==
    LET k == ParseString(s, i)
        c == SkipWs(s, k.next)
        v == ParseValue(s, SkipWs(s, c + 1))
        e == SkipWs(s, v.next)
    IN IF ~k.ok \/ c > Len(s) \/ s[c] # COLON THEN Fail
       ELSE IF ~v.ok \/ e > Len(s) THEN Fail
       ELSE IF s[e] = RB THEN Ok(Obj(PutProp(m, k.v.s, v.v)), e + 1)
       ELSE IF s[e] = COMMA THEN ParseMembers(s, SkipWs(s, e + 1), PutProp(m, k.v.s, v.v))
       ELSE Fail

ParseValue(s, i) ==
    IF i > Len(s) THEN Fail
    ELSE IF s[i] = DQ THEN ParseString(s, i)
    ELSE IF s[i] \in Digits
         THEN LET j == RunEnd(s, i, Digits) IN Ok(Num(SubSeq(s, i, j - 1)), j)
    ELSE IF s[i] = LB
         THEN LET j == SkipWs(s, i + 1)
              IN IF j <= Len(s) /\ s[j] = RB THEN Ok(Obj(<<>>), j + 1)
                 ELSE ParseMembers(s, j, <<>>)
    ELSE Fail

\* JSON.parse(text): ok = FALSE stands for the SyntaxError it throws.
JSONparse(s) ==
    LET r == ParseValue(s, SkipWs(s, 1))
    IN IF r.ok /\ SkipWs(s, r.next) = Len(s) + 1
       THEN [ok |-> TRUE, v |-> r.v]
       ELSE [ok |-> FALSE, v |-> UNDEFINED]

\* -------------------------------------------------------- JSON.stringify
RECURSIVE Indent(_)
Indent(d) == IF d = 0 THEN <<>> ELSE <<SP, SP>> \o Indent(d - 1)

RECURSIVE Stringify(_, _)
RECURSIVE StringifyMembers(_, _, _)

StringifyMembers(m, i, d) ==
    IF i > Len(m) THEN <<>>
    ELSE Indent(d) \o <<DQ>> \o m[i][1] \o <<DQ, COLON, SP>> \o Stringify(m[i][2], d)
         \o (IF i < Len(m) THEN <<COMMA, NL>> ELSE <<>>)
         \o StringifyMembers(m, i + 1, d)

\* JSON.stringify(v, null, 2) at nesting depth d.
Stringify(v, d) ==
    CASE v.t = "str" -> <<DQ>> \o v.s \o <<DQ>>
      [] v.t = "num" -> v.s
      [] v.t = "obj" ->
           IF v.m = <<>> THEN <<LB, RB>>
           ELSE <<LB, NL>> \o StringifyMembers(v.m, 1, d + 1) \o <<NL>> \o Indent(d) \o <<RB>>

JSONstringify(v) == Stringify(v, 0)

\* ------------------------------------------------- String.prototype.replace
\* End (exclusive) of a match of /(['"])?([a-zA-Z0-9_]+)(['"])?\s*:/ that
\* starts at i, or 0 when there is none.  w is where the word starts.
KeyMatch(s, i) ==
    LET w == IF i <= Len(s) /\ s[i] \in Quotes THEN i + 1 ELSE i
        e == RunEnd(s, w, WordChars)
        q == IF e <= Len(s) /\ s[e] \in Quotes THEN e + 1 ELSE e
        c == SkipWs(s, q)
    IN IF e > w /\ c <= Len(s) /\ s[c] = COLON
       THEN [word |-> SubSeq(s, w, e - 1), next |-> c + 1]
       ELSE [word |-> <<>>, next |-> 0]

RECURSIVE QuoteKeys(_, _)
\* configJson.replace(/(['"])?([a-zA-Z0-9_]+)(['"])?\s*:/g, '"$2": ')
QuoteKeys(s, i) ==
    IF i > Len(s) THEN <<>>
    ELSE LET k == KeyMatch(s, i)
         IN IF k.next # 0
            THEN <<DQ>> \o k.word \o <<DQ, COLON, SP>> \o QuoteKeys(s, k.next)
            ELSE <<s[i]>> \o QuoteKeys(s, i + 1)

\* fixed.replace(/'/g, '"')
DoubleQuotes(s) == [i \in 1..Len(s) |-> IF s[i] = SQ THEN DQ ELSE s[i]]

RECURSIVE StripTrailingCommas(_, _)
\* fixed.replace(/,(\s*})/g, '$1')
StripTrailingCommas(s, i) ==
    IF i > Len(s) THEN <<>>
    ELSE LET b == SkipWs(s, i + 1)
         IN IF s[i] = COMMA /\ b <= Len(s) /\ s[b] = RB
            THEN SubSeq(s, i + 1, b) \o StripTrailingCommas(s, b + 1)
            ELSE <<s[i]>> \o StripTrailingCommas(s, i + 1)

\* The three normalizations, in sequence.
Fixed(s) == StripTrailingCommas(DoubleQuotes(QuoteKeys(s, 1)), 1)

\* configJson.trim()
Trim(s) ==
    LET idx == {i \in 1..Len(s) : s[i] \notin Spaces}
    IN IF idx = {} THEN <<>>
       ELSE SubSeq(s, CHOOSE i \in idx : \A j \in idx : i <= j,
                      CHOOSE i \in idx : \A j \in idx : i >= j)

\* getParsedConfig(): the value returned for the text configJson.
getParsedConfig(configJson) ==
    IF Trim(configJson) = <<>> THEN NULL
    ELSE LET first == JSONparse(configJson)
         IN IF first.ok THEN first.v
            ELSE LET second == JSONparse(Fixed(configJson))
                 IN IF second.ok THEN second.v ELSE NULL


\* ------------------------------------------------------------ modal: data
\* Message texts are written without their accents and inverted marks.
MsgInvalid == "Formato invalido."
DetailInvalid == "Asegurate de copiar todo el objeto, incluidas las llaves { y }."
MsgMissing == "Faltan campos requeridos."
DetailMissing == "El objeto debe contener al menos \"apiKey\" y \"projectId\"."
MsgConnecting == "Conectando con Firestore..."
MsgSuccess == "Conexion Exitosa con Firebase!"
MsgUnknown == "Error desconocido."
MsgPermission == "Permiso Denegado."
DetailPermission == "Ve a Firebase Console > Firestore > Reglas. Cambia 'allow read, write: if false;' a 'if true;' para modo de prueba."
MsgNotFound == "Base de datos no encontrada."
DetailNotFound == "Asegurate de haber hecho clic en 'Crear base de datos' en la seccion Firestore de la consola."
MsgConfig == "Error de configuracion."
\* The null of detailedError (useState<string | null>(null)).
NoDetail == "<null>"

\* A call the modal makes on its props or on the data-store service.
\* outcome tells whether the call returned or threw.
Call(fn, msg, type, config, outcome) ==
    [fn |-> fn, msg |-> msg, type |-> type, config |-> config, outcome |-> outcome]
Toast(msg, type) == Call("onShowToast", msg, type, UNDEFINED, "returned")

\* The value a rejected probe is caught with: its code, name and message
\* properties, and which of the two marker substrings its JSON.stringify
\* text holds (json).  The rejection value is taken to be an object.
Markers == {"permission-denied", "not-found"}
Errors ==
    [code : {"permission-denied", "not-found", "unimplemented", "<undefined>"},
     name : {"FirebaseError", "Error"},
     message : {"", "boom"},
     json : SUBSET Markers]

\* JSON.stringify(error), as a text that holds exactly the markers of json.
ErrorJson(error) ==
    CASE error.json = {} -> "{}"
      [] error.json = {"permission-denied"} -> "{\"info\":\"permission-denied\"}"
      [] error.json = {"not-found"} -> "{\"info\":\"not-found\"}"
      [] OTHER -> "{\"info\":\"permission-denied not-found\"}"

\* JSON.stringify(error).includes(marker)
JsonIncludes(error, marker) == marker \in error.json

\* ------------------------------------------------------------ modal: state
VARIABLES
    configJson,     \* useState: the text of the text area
    loading,        \* useState: the Save button's loading flag
    testStatus,     \* useState: 'idle' | 'testing' | 'success' | 'error'
    testMessage,    \* useState: the message of the test result area
    detailedError,  \* useState: the remediation detail, or NoDetail
    inflight,       \* handleTestConnection runs awaiting syncWithFirebase
    lastAction,     \* the handler or continuation that ran last
    lastValue,      \* e.target.value of that handler, when it is onChange
    effects,        \* the calls that handler made, in order
    threw,          \* whether that handler ended with an uncaught exception
    caught,         \* the error that handler's catch block received, if any
    completed,      \* the probe whose completion set testStatus, if any:
                    \* its configuration, whether the text was edited while it
                    \* was awaiting, whether its completion replaced the text
    text,           \* SpecParse: the text getParsedConfig is applied to
    parsed,         \* SpecParse: what getParsedConfig returned, once called
    chat            \* SpecChat: one call of sendAssistantMessage

modalVars == <<configJson, loading, testStatus, testMessage, detailedError,
               inflight, lastAction, lastValue, effects, threw, caught, completed>>
parseVars == <<text, parsed>>
chatVars == <<chat>>
vars == <<modalVars, parseVars, chatVars>>

NoError == [code |-> "<undefined>", name |-> "", message |-> "", json |-> {}]
NoProbe == [some |-> FALSE, config |-> UNDEFINED, edited |-> FALSE, overwrote |-> FALSE]

\* ----------------------------------------------------------- modal: inputs
TxtJson == <<LB, DQ, "apiKey", DQ, COLON, DQ, "x", DQ, COMMA,
             DQ, "projectId", DQ, COLON, DQ, "x", DQ, RB>>
TxtOther == <<LB, DQ, "apiKey", DQ, COLON, DQ, "1", DQ, COMMA,
              DQ, "projectId", DQ, COLON, DQ, "x", DQ, RB>>
TxtPasted == <<LB, "apiKey", COLON, SP, SQ, "x", SQ, COMMA, SP,
               "projectId", COLON, SP, DQ, "x", DQ, COMMA, RB>>
TxtUrl == <<LB, "apiKey", COLON, DQ, "x", COLON, "x", DQ, COMMA,
            "projectId", COLON, DQ, "x", DQ, RB>>
TxtNoProject == <<LB, DQ, "apiKey", DQ, COLON, DQ, "x", DQ, RB>>
TxtEmptyKey == <<LB, DQ, "apiKey", DQ, COLON, DQ, DQ, COMMA,
                 DQ, "projectId", DQ, COLON, DQ, "x", DQ, RB>>

\* Texts the user may type or paste (e.target.value).
Texts ==
    {<<>>, <<SP>>, <<LB>>, <<"1">>, <<DQ, DQ>>, <<LB, RB>>,
     TxtNoProject, TxtEmptyKey, TxtJson, TxtOther, TxtPasted, TxtUrl}

\* settings.firebaseConfig of the props: absent, or a stored configuration.
StoredConfigs == {UNDEFINED, getParsedConfig(TxtJson), getParsedConfig(TxtOther)}

\* ---------------------------------------------------------- modal: helpers
Remove(seq, i) == SubSeq(seq, 1, i - 1) \o SubSeq(seq, i + 1, Len(seq))

\* Mutant of MissingRequired: only apiKey is looked at.
MissingApiKeyOnly(config) == ~Truthy(GetProp(config, <<"apiKey">>))

\* !config.apiKey || !config.projectId
MissingRequired(config) ==
    ~Truthy(GetProp(config, <<"apiKey">>)) \/ ~Truthy(GetProp(config, <<"projectId">>))

\* Mutant of StatusAfterEdit: only an 'error' status is reset.
StatusAfterEditErrorOnly(status) == IF status = "error" THEN "idle" ELSE status

\* The text area's onChange: the next testStatus and detailedError.
StatusAfterEdit(status) == IF status # "idle" THEN "idle" ELSE status
DetailAfterEdit(detail) == IF detail # NoDetail THEN NoDetail ELSE detail

\* Mutant of ClassifyMsg: the not-found test comes first.
ClassifyMsgNotFoundFirst(error) ==
    IF JsonIncludes(error, "not-found") \/ error.code = "not-found"
       \/ error.code = "unimplemented"
    THEN MsgNotFound
    ELSE IF JsonIncludes(error, "permission-denied") \/ error.code = "permission-denied"
    THEN MsgPermission
    ELSE IF error.name = "FirebaseError" THEN MsgConfig
    ELSE MsgUnknown

\* The catch block's classification: the message shown.
ClassifyMsg(error) ==
    IF JsonIncludes(error, "permission-denied") \/ error.code = "permission-denied"
    THEN MsgPermission
    ELSE IF JsonIncludes(error, "not-found") \/ error.code = "not-found"
            \/ error.code = "unimplemented"
    THEN MsgNotFound
    ELSE IF error.name = "FirebaseError" THEN MsgConfig
    ELSE MsgUnknown

\* The catch block's classification: the remediation detail.
ClassifyDetail(error) ==
    IF JsonIncludes(error, "permission-denied") \/ error.code = "permission-denied"
    THEN DetailPermission
    ELSE IF JsonIncludes(error, "not-found") \/ error.code = "not-found"
            \/ error.code = "unimplemented"
    THEN DetailNotFound
    ELSE IF error.message # "" THEN error.message ELSE ErrorJson(error)

\* Mutant of StatusOnReject: the catch block sets the try block's status.
StatusOnRejectCopied == "success"

\* setTestStatus at the two ends of the try block.
StatusOnResolve == "success"
StatusOnReject == "error"

\* The notifications of the two ends of the try block.
ResolvedToasts == <<Toast(<<"Conexion exitosa">>, "success")>>
\* Mutant of RejectedToasts: the catch block raises no notification.
RejectedToastsNone(msg) == <<>>
RejectedToasts(msg) == <<Toast(<<"Error conectando: ", msg>>, "error")>>

\* ---------------------------------------------------------- modal: actions
\* The variables of the modal while another specification runs.
ModalIdle ==
    /\ configJson = <<>>
    /\ loading = FALSE
    /\ testStatus = "idle"
    /\ testMessage = ""
    /\ detailedError = NoDetail
    /\ inflight = <<>>
    /\ lastAction = "init"
    /\ lastValue = <<>>
    /\ effects = <<>>
    /\ threw = FALSE
    /\ caught = NoError
    /\ completed = NoProbe

\* The state after the component's first render.
ModalInit ==
    /\ \E stored \in StoredConfigs :
         configJson = IF Truthy(stored) THEN JSONstringify(stored) ELSE <<>>
    /\ loading = FALSE
    /\ testStatus = "idle"
    /\ testMessage = ""
    /\ detailedError = NoDetail
    /\ inflight = <<>>
    /\ lastAction = "init"
    /\ lastValue = <<>>
    /\ effects = <<>>
    /\ threw = FALSE
    /\ caught = NoError
    /\ completed = NoProbe

\* onChange of the text area, with e.target.value = value.
onChange(value) ==
    /\ value # configJson
    /\ configJson' = value
    /\ testStatus' = StatusAfterEdit(testStatus)
    /\ detailedError' = DetailAfterEdit(detailedError)
    /\ inflight' = [i \in 1..Len(inflight) |-> [inflight[i] EXCEPT !.edited = TRUE]]
    /\ lastAction' = "onChange"
    /\ lastValue' = value
    /\ effects' = <<>>
    /\ threw' = FALSE
    /\ caught' = NoError
    /\ completed' = NoProbe
    /\ UNCHANGED <<loading, testMessage>>

\* handleTestConnection up to its await (or to its early return).  The
\* button is disabled while testStatus is 'testing'.
handleTestConnection ==
    /\ testStatus # "testing"
    /\ LET config == getParsedConfig(configJson)
       IN IF ~Truthy(config)
          THEN /\ testStatus' = "error"
               /\ testMessage' = MsgInvalid
               /\ detailedError' = DetailInvalid
               /\ effects' = <<>>
               /\ UNCHANGED inflight
          ELSE IF MissingRequired(config)
          THEN /\ testStatus' = "error"
               /\ testMessage' = MsgMissing
               /\ detailedError' = DetailMissing
               /\ effects' = <<>>
               /\ UNCHANGED inflight
          ELSE /\ Len(inflight) < MaxInFlight
               /\ testStatus' = "testing"
               /\ testMessage' = MsgConnecting
               /\ detailedError' = NoDetail
               /\ effects' = <<Call("syncWithFirebase", <<>>, "", config, "pending")>>
               /\ inflight' = Append(inflight,
                     [config |-> config, edited |-> FALSE])
    /\ lastAction' = "handleTestConnection"
    /\ lastValue' = <<>>
    /\ threw' = FALSE
    /\ caught' = NoError
    /\ completed' = NoProbe
    /\ UNCHANGED <<configJson, loading>>

\* The continuation of handleTestConnection after the awaited
\* syncWithFirebase of run i resolved.
ProbeResolved(i) ==
    /\ i \in 1..Len(inflight)
    /\ testStatus' = StatusOnResolve
    /\ testMessage' = MsgSuccess
    /\ effects' = ResolvedToasts
    /\ configJson' = JSONstringify(inflight[i].config)
    /\ inflight' = Remove(inflight, i)
    /\ lastAction' = "probeResolved"
    /\ lastValue' = <<>>
    /\ threw' = FALSE
    /\ caught' = NoError
    /\ completed' = [some |-> TRUE, config |-> inflight[i].config,
                     edited |-> inflight[i].edited,
                     overwrote |-> JSONstringify(inflight[i].config) # configJson]
    /\ UNCHANGED <<loading, detailedError>>

\* The catch block of handleTestConnection after the awaited
\* syncWithFirebase of run i rejected with error.
ProbeRejected(i, error) ==
    /\ i \in 1..Len(inflight)
    /\ testStatus' = StatusOnReject
    /\ testMessage' = ClassifyMsg(error)
    /\ detailedError' = ClassifyDetail(error)
    /\ effects' = RejectedToasts(ClassifyMsg(error))
    /\ inflight' = Remove(inflight, i)
    /\ lastAction' = "probeRejected"
    /\ lastValue' = <<>>
    /\ threw' = FALSE
    /\ caught' = error
    /\ completed' = [some |-> TRUE, config |-> inflight[i].config,
                     edited |-> inflight[i].edited, overwrote |-> FALSE]
    /\ UNCHANGED <<configJson, loading>>

\* The calls of handleSave; onSave and onClose are the caller's and may
\* throw.
SaveCalls(config, onSaveThrows, onCloseThrows) ==
    IF ~Truthy(config)
    THEN <<Toast(<<"El texto introducido no es valido">>, "error")>>
    ELSE <<Call("onSave", <<>>, "", config, IF onSaveThrows THEN "threw" ELSE "returned")>>
         \o (IF onSaveThrows THEN <<>>
             ELSE <<Call("onClose", <<>>, "", UNDEFINED,
                         IF onCloseThrows THEN "threw" ELSE "returned")>>)
         \o (IF onSaveThrows \/ onCloseThrows
             THEN <<Toast(<<"Error guardando configuracion">>, "error")>>
             ELSE <<>>)

\* handleSave: no await inside, so setLoading(true) and the finally's
\* setLoading(false) fall in one step.  The button is disabled while
\* loading.
handleSave(onSaveThrows, onCloseThrows) ==
    /\ ~loading
    /\ effects' = SaveCalls(getParsedConfig(configJson), onSaveThrows, onCloseThrows)
    /\ loading' = FALSE
    /\ threw' = FALSE
    /\ caught' = NoError
    /\ lastAction' = "handleSave"
    /\ lastValue' = <<>>
    /\ UNCHANGED <<configJson, testStatus, testMessage, detailedError, inflight, completed>>

\* The calls of handleImport.
ImportCalls(config, onSaveThrows, onCloseThrows) ==
    IF ~Truthy(config)
    THEN <<Toast(<<"Configuracion invalida">>, "error")>>
    ELSE <<Toast(<<"Importando datos de la nube...">>, "info"),
           Call("onSave", <<>>, "", config, IF onSaveThrows THEN "threw" ELSE "returned")>>
         \o (IF onSaveThrows THEN <<>>
             ELSE <<Call("onClose", <<>>, "", UNDEFINED,
                         IF onCloseThrows THEN "threw" ELSE "returned")>>)

\* Whether handleImport ends with an exception nothing catches.
ImportThrows(config, onSaveThrows, onCloseThrows) ==
    Truthy(config) /\ (onSaveThrows \/ onCloseThrows)

handleImport(onSaveThrows, onCloseThrows) ==
    /\ effects' = ImportCalls(getParsedConfig(configJson), onSaveThrows, onCloseThrows)
    /\ threw' = ImportThrows(getParsedConfig(configJson), onSaveThrows, onCloseThrows)
    /\ caught' = NoError
    /\ lastAction' = "handleImport"
    /\ lastValue' = <<>>
    /\ UNCHANGED <<configJson, loading, testStatus, testMessage, detailedError,
                   inflight, completed>>

\* ------------------------------------------------- getParsedConfig alone
RECURSIVE TextsUpTo(_)
\* Every text of at most n symbols.
TextsUpTo(n) ==
    IF n = 0 THEN {<<>>}
    ELSE LET shorter == TextsUpTo(n - 1)
         IN shorter \cup {Append(s, c) : s \in {u \in shorter : Len(u) = n - 1}, c \in Alphabet}

NotCalled == [called |-> FALSE, value |-> UNDEFINED]
ParseIdle == text = <<>> /\ parsed = NotCalled

ParseInit == text \in TextsUpTo(MaxLen) /\ parsed = NotCalled

\* One call of getParsedConfig on the text.
CallGetParsedConfig ==
    /\ ~parsed.called
    /\ parsed' = [called |-> TRUE, value |-> getParsedConfig(text)]
    /\ UNCHANGED text

\* ------------------------------------------------- sendAssistantMessage
NoWeb == [present |-> FALSE, uri |-> "", title |-> ""]
Web(uri, title) == [present |-> TRUE, uri |-> uri, title |-> title]
\* A grounding chunk: chunk.web is absent, or holds a uri and a title.
Chunks == {[web |-> NoWeb]} \cup {[web |-> Web(u, ti)] : u \in {"u1", "u2"}, ti \in {"t1", "t2"}}

RECURSIVE ChunkListsUpTo(_)
ChunkListsUpTo(n) ==
    IF n = 0 THEN {<<>>}
    ELSE LET shorter == ChunkListsUpTo(n - 1)
         IN shorter \cup {Append(s, c) : s \in {u \in shorter : Len(u) = n - 1}, c \in Chunks}

\* What generateContent resolves with: response.text ("" when absent) and
\* candidates?.[0]?.groundingMetadata?.groundingChunks (hasChunks = FALSE
\* when any link of that chain is missing).
Responses ==
    [text : {"", "respuesta"}, hasChunks : {TRUE}, groundingChunks : ChunkListsUpTo(MaxChunks)]
    \cup [text : {"", "respuesta"}, hasChunks : {FALSE}, groundingChunks : {<<>>}]

NullItem == [isNull |-> TRUE, uri |-> "", title |-> ""]

\* chunk.web ? { uri: chunk.web.uri, title: chunk.web.title } : null
MapChunk(chunk) ==
    IF chunk.web.present
    THEN [isNull |-> FALSE, uri |-> chunk.web.uri, title |-> chunk.web.title]
    ELSE NullItem

\* Mutant of KeepItem: nothing is filtered out.
KeepEveryItem(item) == TRUE

\* (item) => item !== null
KeepItem(item) == item # NullItem

\* response.candidates?.[0]?.groundingMetadata?.groundingChunks || []
GroundingChunks(response) == IF response.hasChunks THEN response.groundingChunks ELSE <<>>

\* groundingChunks.map(...).filter(...)
Sources(response) ==
    LET chunks == GroundingChunks(response)
        mapped == [i \in 1..Len(chunks) |-> MapChunk(chunks[i])]
    IN SelectSeq(mapped, KeepItem)

NoResponse == [text |-> "", hasChunks |-> FALSE, groundingChunks |-> <<>>]
NoResult == [text |-> "", sources |-> <<>>]
ChatIdle ==
    chat = [pc |-> "idle", useSearch |-> FALSE, modelName |-> "", tools |-> <<>>,
            response |-> NoResponse, result |-> NoResult]

\* sendAssistantMessage(message, useSearch) up to its await; getAiClient
\* throws when process.env.API_KEY is absent.
sendAssistantMessage(useSearch, hasApiKey) ==
    /\ chat.pc = "idle"
    /\ chat' = [chat EXCEPT
                  !.pc = IF hasApiKey THEN "awaiting" ELSE "thrown",
                  !.useSearch = useSearch,
                  !.modelName = IF ~hasApiKey THEN ""
                                ELSE IF useSearch THEN "gemini-2.5-flash"
                                ELSE "gemini-3-pro-preview",
                  !.tools = IF hasApiKey /\ useSearch THEN <<"googleSearch">> ELSE <<>>]

\* generateContent resolved with response: the value returned.
ChatResolved(response) ==
    /\ chat.pc = "awaiting"
    /\ chat' = [chat EXCEPT
                  !.pc = "returned",
                  !.response = response,
                  !.result = [text |-> IF response.text # "" THEN response.text
                                       ELSE "No se pudo generar respuesta.",
                              sources |-> Sources(response)]]

\* generateContent rejected: the catch block logs and rethrows.
ChatRejected ==
    /\ chat.pc = "awaiting"
    /\ chat' = [chat EXCEPT !.pc = "thrown"]

\* ------------------------------------------------------- specifications
\* The state after the settings modal's first render.
Init == ModalInit /\ ParseIdle /\ ChatIdle

Next ==
    \/ (\E value \in Texts : onChange(value)) /\ UNCHANGED <<parseVars, chatVars>>
    \/ handleTestConnection /\ UNCHANGED <<parseVars, chatVars>>
    \/ (\E i \in 1..MaxInFlight : ProbeResolved(i)) /\ UNCHANGED <<parseVars, chatVars>>
    \/ (\E i \in 1..MaxInFlight, error \in Errors : ProbeRejected(i, error))
         /\ UNCHANGED <<parseVars, chatVars>>
    \/ (\E s, c \in BOOLEAN : handleSave(s, c)) /\ UNCHANGED <<parseVars, chatVars>>
    \/ (\E s, c \in BOOLEAN : handleImport(s, c)) /\ UNCHANGED <<parseVars, chatVars>>

\* The settings modal under every interleaving of user actions and probe
\* completions.
Spec == Init /\ [][Next]_vars

InitParse == ModalIdle /\ ParseInit /\ ChatIdle

ParseNext == CallGetParsedConfig /\ UNCHANGED <<modalVars, chatVars>>

\* getParsedConfig applied to every text of at most MaxLen symbols.
SpecParse == InitParse /\ [][ParseNext]_vars

InitChat == ModalIdle /\ ParseIdle /\ ChatIdle

ChatNext ==
    \/ (\E useSearch, hasApiKey \in BOOLEAN : sendAssistantMessage(useSearch, hasApiKey))
         /\ UNCHANGED <<modalVars, parseVars>>
    \/ (\E response \in Responses : ChatResolved(response)) /\ UNCHANGED <<modalVars, parseVars>>
    \/ ChatRejected /\ UNCHANGED <<modalVars, parseVars>>

\* One call of sendAssistantMessage against every provider response.
SpecChat == InitChat /\ [][ChatNext]_vars

\* ================================================================ claims
\* The calls of the last handler to one function, in order.
CallsTo(fn) == SelectSeq(effects, LAMBDA c : c.fn = fn)
ToastsOf(type) == SelectSeq(CallsTo("onShowToast"), LAMBDA c : c.type = type)

\* A parsed value that is a configuration with a present, non-empty apiKey
\* and projectId.
HasRequired(c) ==
    /\ c.t = "obj"
    /\ \A key \in {<<"apiKey">>, <<"projectId">>} :
         \E i \in 1..Len(c.m) : c.m[i][1] = key /\ c.m[i][2] # Str(<<>>)

\* ---- C1
\* C1 as claimed: the status becomes 'testing' only by handleTestConnection,
\* and no step changes it to 'success' or 'error' from a status other than
\* 'testing'.
C1_OnlyFromTesting ==
    [][/\ (testStatus' = "testing" /\ testStatus # "testing")
            => lastAction' = "handleTestConnection"
       /\ (testStatus' \in {"success", "error"} /\ testStatus' # testStatus)
            => testStatus = "testing"]_vars

\* C1 as amended: every change of the status has its one cause.  It becomes
\* 'testing' only by a handleTestConnection that starts a probe, 'success'
\* only by the resolution of a probe, 'error' only by a failed validation of
\* handleTestConnection (from any status but 'testing') or by the rejection
\* of a probe, and 'idle' only by a text edit; the status a completing probe
\* finds need not be 'testing'.
C1_Transitions ==
    [][testStatus' # testStatus =>
        CASE testStatus' = "testing" ->
               /\ lastAction' = "handleTestConnection"
               /\ Len(inflight') = Len(inflight) + 1
          [] testStatus' = "success" ->
               /\ lastAction' = "probeResolved"
               /\ Len(inflight') = Len(inflight) - 1
          [] testStatus' = "error" ->
               \/ /\ lastAction' = "probeRejected"
                  /\ Len(inflight') = Len(inflight) - 1
               \/ /\ lastAction' = "handleTestConnection"
                  /\ testStatus # "testing"
                  /\ ~HasRequired(getParsedConfig(configJson))
                  /\ inflight' = inflight
          [] OTHER -> lastAction' = "onChange"]_vars

\* C1 witness: a probe resolved after an edit had reset the status, so the
\* status went from 'idle' to 'success'.
C1_Witness ==
    lastAction = "probeResolved" /\ completed.edited /\ testStatus = "success"

\* ---- C2
\* C2: right after the text area's onChange the status is 'idle', the
\* remediation detail is cleared and the text is the edited value.
C2_EditResets ==
    lastAction = "onChange" =>
        testStatus = "idle" /\ detailedError = NoDetail /\ configJson = lastValue

\* C2 witness: an edit made while a probe was awaiting (status 'testing').
C2_Witness ==
    lastAction = "onChange" /\ Len(inflight) > 0 /\ testStatus = "idle"

\* ---- C3
\* C3: a handleTestConnection on text that yields no configuration with a
\* present, non-empty apiKey and projectId ends with status 'error' and
\* without a call of syncWithFirebase.
C3_ValidationBeforeProbe ==
    (lastAction = "handleTestConnection" /\ ~HasRequired(getParsedConfig(configJson)))
        => testStatus = "error" /\ CallsTo("syncWithFirebase") = <<>>

\* C3 witness: the test action on a configuration that lacks projectId.
C3_Witness ==
    /\ lastAction = "handleTestConnection"
    /\ getParsedConfig(configJson).t = "obj"
    /\ ~HasRequired(getParsedConfig(configJson))
    /\ testMessage = MsgMissing

\* ---- C4
\* C4 as claimed: getParsedConfig returns an object or null for every text,
\* and null for blank text and for text that fails both parses.
C4_ObjectOrNull ==
    parsed.called =>
        /\ parsed.value.t \in {"obj", "null"}
        /\ Trim(text) = <<>> => parsed.value = NULL
        /\ (~JSONparse(text).ok /\ ~JSONparse(Fixed(text)).ok) => parsed.value = NULL

\* ---- C5
\* C5 as claimed: a configuration handed to onSave by Save or Import is the
\* one parsed from the text and has apiKey and projectId; when the text
\* yields no such configuration, neither onSave nor onClose is called and an
\* error notification is raised.
C5_SavedConfigUsable ==
    lastAction \in {"handleSave", "handleImport"} =>
        /\ \A i \in 1..Len(CallsTo("onSave")) :
             /\ CallsTo("onSave")[i].config = getParsedConfig(configJson)
             /\ HasRequired(CallsTo("onSave")[i].config)
        /\ ~HasRequired(getParsedConfig(configJson)) =>
             /\ CallsTo("onSave") = <<>>
             /\ CallsTo("onClose") = <<>>
             /\ ToastsOf("error") # <<>>

\* ---- C6
PermissionResponse(error) ==
    error.code = "permission-denied" \/ JsonIncludes(error, "permission-denied")
NotFoundResponse(error) ==
    error.code = "not-found" \/ JsonIncludes(error, "not-found")
MessageClasses == {MsgPermission, MsgNotFound, MsgConfig, MsgUnknown}

WebPlaces(chunks) == {i \in 1..Len(chunks) : chunks[i].web.present}
\* The k-th of these places, counted from the front.
KthWebPlace(chunks, k) ==
    CHOOSE i \in WebPlaces(chunks) :
        Cardinality({j \in WebPlaces(chunks) : j <= i}) = k

\* C8: the sources returned are the chunks with a web source, in their
\* order, each as its {uri, title}; no chunk without a web source appears,
\* and a missing grounding list gives no sources.
C8_CitationFilter ==
    chat.pc = "returned" =>
        LET chunks == chat.response.groundingChunks
            sources == chat.result.sources
        IN /\ ~chat.response.hasChunks => sources = <<>>
           /\ chat.response.hasChunks =>
                /\ Len(sources) = Cardinality(WebPlaces(chunks))
                /\ \A k \in 1..Len(sources) :
                     /\ ~sources[k].isNull
                     /\ sources[k].uri = chunks[KthWebPlace(chunks, k)].web.uri
                     /\ sources[k].title = chunks[KthWebPlace(chunks, k)].web.title

\* C8 witness: a list where a chunk without a web source stands between two
\* different chunks with one.
C8_Witness ==
    /\ chat.pc = "returned"
    /\ chat.response.hasChunks
    /\ Len(chat.response.groundingChunks) = 3
    /\ ~chat.response.groundingChunks[2].web.present
    /\ Len(chat.result.sources) = 2
    /\ chat.result.sources[1] # chat.result.sources[2]

\* ---- C9
\* C9 as claimed: a completed probe leaves the status at 'success' or
\* 'error' with its message, and an exception of the save handler during
\* Save or Import is caught, reported as an error notification and leaves
\* loading false.
C9_FailuresVisible ==
    /\ lastAction \in {"probeResolved", "probeRejected"} =>
         /\ testStatus \in {"success", "error"}
         /\ testMessage \notin {"", MsgConnecting}
    /\ (/\ lastAction \in {"handleSave", "handleImport"}
        /\ \E i \in 1..Len(effects) : effects[i].fn = "onSave" /\ effects[i].outcome = "threw")
         => ~threw /\ ToastsOf("error") # <<>> /\ ~loading

\* ---- C10
\* C10 as claimed: at most one probe is in flight, a completing probe does
\* not replace text that was edited while it was in flight, and a status of
\* 'success' or 'error' set by a probe belongs to the configuration parsed
\* from the text now in the text area.
C10_ProbesIsolated ==
    /\ Len(inflight) <= 1
    /\ ~(completed.some /\ completed.edited /\ completed.overwrote)
    /\ (completed.some /\ testStatus \in {"success", "error"})
         => completed.config = getParsedConfig(configJson)
====
